---- MODULE Spec2Model ----
(***************************************************************************)
(* Model of magic-manager: the rate-limited Scryfall client                *)
(* (services/api/src/scryfall.ts) and its query compiler, the cards-search *)
(* route that caches and enriches search results, the route that adds a    *)
(* card to a collection, the route that searches a collection, and the     *)
(* tables they read and write.                                             *)
(*                                                                         *)
(* JavaScript runs one callback at a time: the code between two awaits is  *)
(* one atomic action, and callers interleave at their await points.        *)
(* Time is kept as elapsed milliseconds (now - lastRequestTime, remaining  *)
(* time of each pending setTimeout) because the code only ever uses        *)
(* differences of Date.now() values.                                       *)
(***************************************************************************)
EXTENDS Integers, Sequences, FiniteSets, TLC

\* ---------------------------------------------------------------- bounds
NumCallers == 2
MaxAttempts == 3

MaxRows == 2
MaxPage == 2
MaxAdds == 2
MaxSets == 2

\* ------------------------------------------------------ program constants
REQUEST_DELAY == 100
RETRY_DELAY == 1000

Callers == 1..NumCallers

\* Amounts of time that may pass between two callbacks.
TickSteps == {50, 500}

Min(a, b) == IF a < b THEN a ELSE b
Max(a, b) == IF a > b THEN a ELSE b

\* ------------------------------------------------- the external API's replies
NoData == <<>>

\* A JSON body: the fields of the payload the code looks at.  hasData is
\* FALSE when the payload has no `data` member.
ListBody(cards) ==
  [object |-> "list", code |-> "", details |-> "", hasData |-> TRUE, data |-> cards,
   total_cards |-> Len(cards), has_more |-> FALSE]
CatalogBody(hasData, names) ==
  [object |-> "catalog", code |-> "", details |-> "", hasData |-> hasData, data |-> names,
   total_cards |-> 0, has_more |-> FALSE]
ErrorBody(code, details) ==
  [object |-> "error", code |-> code, details |-> details, hasData |-> FALSE,
   data |-> NoData, total_cards |-> 0, has_more |-> FALSE]
\* a body on which response.json() rejects
NotJson ==
  [object |-> "not_json", code |-> "", details |-> "", hasData |-> FALSE,
   data |-> NoData, total_cards |-> 0, has_more |-> FALSE]

\* The bodies the ScryfallService methods are tried on; a card of a list is
\* named by its identifier here.
Bodies ==
  { ListBody(<<"c1", "c2">>),
    CatalogBody(TRUE, <<"bolt", "bolt of keranos">>), CatalogBody(FALSE, NoData),
    ErrorBody("not_found", "no cards matched"), ErrorBody("bad_request", "bad query"),
    ErrorBody("bad_request", ""), NotJson }

Statuses == {200, 404, 429, 500}

StatusText(s) ==
  CASE s = 200 -> "OK"
    [] s = 400 -> "Bad Request"
    [] s = 404 -> "Not Found"
    [] s = 429 -> "Too Many Requests"
    [] s = 500 -> "Internal Server Error"
    [] OTHER -> ""

\* status 0: fetch() itself rejected (network failure), there is no response
NetworkFailure == [status |-> 0, body |-> NotJson]
Replies == [status : Statuses, body : Bodies] \cup {NetworkFailure}
NoReply == [status |-> 0, body |-> NotJson]

\* response.ok
Ok(status) == status >= 200 /\ status <= 299

\* ------------------------------------------------------ results of a call
ErrorOf(text, status, statusText) ==
  [text |-> text, status |-> status, statusText |-> statusText]
NoError == ErrorOf("", 0, "")

Pending == [kind |-> "pending", error |-> NoError, total_cards |-> 0,
            has_more |-> FALSE, data |-> NoData]
Threw(err) == [kind |-> "threw", error |-> err, total_cards |-> 0,
               has_more |-> FALSE, data |-> NoData]
Returned(total, more, data) == [kind |-> "returned", error |-> NoError,
                                total_cards |-> total, has_more |-> more, data |-> data]

\* throw new Error(`Scryfall API error: ${response.status} ${response.statusText}`)
HttpError(status) == ErrorOf("Scryfall API error", status, StatusText(status))
FetchRejected == ErrorOf("fetch failed", 0, "")
JsonRejected == ErrorOf("invalid json", 0, "")

Ops == {"downloadCardImage", "searchCards", "getAutocomplete"}

\* ------------------------------------------------------------ the tables
Users == {"u1", "u2"}
NoUser == "anonymous"
CardIds == {"c1", "c2"}
\* what the external API or a cache row says about a card
Payloads == {"old", "new"}
NoRow == "none"
Conditions == {"near_mint"}
Quantities == {1, 2}

\* a card of an external search page
Card(id, payload) == [id |-> id, payload |-> payload]
\* the external API's present data of each card
ScryfallCards == { Card(id, "new") : id \in CardIds }

\* notes is undefined in a request, null in a row
NoNotes == "undefined"

\* a row of collection_cards (its notes column null); the synthetic id of a row
\* is not kept: rows are never deleted and the table holds at most one row per
\* (user, card, condition, foil), so the key names the row
Row(u, id, cond, foil, qty) ==
  [user_id |-> u, scryfall_id |-> id, condition |-> cond, foil |-> foil, quantity |-> qty,
   notes |-> NoNotes]
Rows == { Row(u, id, cond, foil, qty) :
            u \in Users, id \in CardIds, cond \in Conditions, foil \in BOOLEAN,
            qty \in Quantities }
KeyOf(r) == <<r.user_id, r.scryfall_id, r.condition, r.foil>>

\* an item of the data array of a cards-search response
Item(id, payload, owned, qty) ==
  [scryfall_id |-> id, payload |-> payload, in_collection |-> owned,
   collection_quantity |-> qty]
NoItem == Item("", "", FALSE, 0)

Response(status, data) == [status |-> status, data |-> data]
NoResponse == Response(0, <<>>)

VARIABLES
  sinceLastRequest,  \* Date.now() - lastRequestTime, saturated at REQUEST_DELAY
  pc,                \* per caller: where its rateLimitedFetch call stands
  timer,             \* per caller: ms left on its pending setTimeout
  attempts,          \* per caller: fetch() dispatches of the current call (saturated)
  op,                \* per caller: the ScryfallService method that made the call
  lastReply,         \* per caller: the reply its latest dispatch received
  fetchResult,       \* per caller: what rateLimitedFetch returned or threw
  outcome,           \* per caller: what the ScryfallService method returned or threw
  dispatched,        \* some request has been dispatched since start-up
  lastGap,           \* ms between the two most recent dispatches (saturated)
  cards_cache,       \* table cards_cache: scryfall_id -> payload of the row, or NoRow
  collection_cards,  \* table collection_cards: the set of its rows
  srchPc,            \* GET /api/cards/search: where the request stands
  srchUser,          \* ... the user of the session
  srchResult,        \* ... searchResult.data, the cards of the external page
  cardPc,            \* ... per card of the page: where its enrich callback stands
  cachedCard,        \* ... per card: the cachedCard local of its callback
  enhanced,          \* ... per card: the item its callback resolved to
  enrichFailure,     \* ... per card: the database failure its callback met
  cacheLog,          \* ... per card: had it a cache row, and the upserts made
  srchResponse,      \* ... the response sent
  addPc,             \* POST /api/collection/add, per request slot: where it stands
  addUser,           \* ... the user of the session
  addData,           \* ... validatedData
  addExisting,       \* ... existingCard
  addResponse,       \* ... the response sent
  addsStarted,       \* add requests received so far
  collPc,            \* GET /api/collection/search: where the request stands
  collUser,          \* ... the user of the session
  collParams,        \* ... validatedParams
  collCards,         \* ... cards, the rows the data query returned
  collResponse,      \* ... the response sent
  advFilters,        \* advancedSearch: the filters of the last call
  advQuery,          \* ... the query it compiled, as a sequence of tokens
  addingCards,       \* CardSearch: the state set of the ids of the cards being added
  uiPc,              \* ... where each call of handleAddToCollection stands
  uiCard,            \* ... the id of the card of each call
  uiToast            \* ... the toast each card showed last

fetchVars == <<sinceLastRequest, pc, timer, attempts, op, lastReply, fetchResult,
               outcome, dispatched, lastGap>>
tableVars == <<cards_cache, collection_cards>>
srchVars == <<srchPc, srchUser, srchResult, cardPc, cachedCard, enhanced,
              enrichFailure, cacheLog, srchResponse>>
addVars == <<addPc, addUser, addData, addExisting, addResponse, addsStarted>>
collVars == <<collPc, collUser, collParams, collCards, collResponse>>
routeVars == <<addVars, collVars>>
advVars == <<advFilters, advQuery>>
uiVars == <<addingCards, uiPc, uiCard, uiToast>>
vars == <<sinceLastRequest, pc, timer, attempts, op, lastReply, fetchResult,
          outcome, dispatched, lastGap, cards_cache, collection_cards,
          srchPc, srchUser, srchResult, cardPc, cachedCard, enhanced,
          enrichFailure, cacheLog, srchResponse,
          addPc, addUser, addData, addExisting, addResponse, addsStarted,
          collPc, collUser, collParams, collCards, collResponse,
          advFilters, advQuery, addingCards, uiPc, uiCard, uiToast>>

\* ------------------------------------------------------- ScryfallService
\* What each method makes of the outcome of its rateLimitedFetch call:
\* fetched is what rateLimitedFetch returned or threw, reply the response.

\* data.details || 'Unknown Scryfall error'
DetailsOr(details, fallback) == IF details # "" THEN details ELSE fallback

searchCardsResult(fetched, reply) ==
  IF fetched.kind = "threw" THEN Threw(fetched.error)
  ELSE IF reply.body.object = "not_json" THEN Threw(JsonRejected)
  ELSE IF reply.body.object = "error"
    THEN IF reply.body.code = "not_found"
           THEN Returned(0, FALSE, <<>>)
           ELSE Threw(ErrorOf(DetailsOr(reply.body.details, "Unknown Scryfall error"), 0, ""))
    ELSE Returned(reply.body.total_cards, reply.body.has_more, reply.body.data)

getAutocompleteRethrows(fetched, reply) ==
  IF fetched.kind = "threw" THEN Threw(fetched.error)
  ELSE IF reply.body.object = "not_json" THEN Threw(JsonRejected)
  ELSE IF reply.body.object = "error" THEN Returned(0, FALSE, <<>>)
  ELSE Returned(0, FALSE, IF reply.body.hasData THEN reply.body.data ELSE <<>>)

getAutocompleteResult(fetched, reply) ==
  IF fetched.kind = "threw" THEN Returned(0, FALSE, <<>>)
  ELSE IF reply.body.object = "not_json" THEN Returned(0, FALSE, <<>>)
  ELSE IF reply.body.object = "error" THEN Returned(0, FALSE, <<>>)
  ELSE Returned(0, FALSE, IF reply.body.hasData THEN reply.body.data ELSE <<>>)

downloadCardImageResult(fetched, reply) ==
  IF fetched.kind = "threw" THEN Threw(fetched.error)
  ELSE Returned(0, FALSE, NoData)

OpResult(o, fetched, reply) ==
  CASE o = "searchCards" -> searchCardsResult(fetched, reply)
    [] o = "getAutocomplete" -> getAutocompleteResult(fetched, reply)
    [] OTHER -> downloadCardImageResult(fetched, reply)

\* ----------------------------------------- ScryfallService.advancedSearch

\* A query string is kept as the sequence of the pieces the template literals
\* put together; the values of the filters are pieces of their own.
Quote == "\""

\* parts.join(sep), parts being sequences of pieces
RECURSIVE Join(_, _)
Join(parts, sep) ==
  IF Len(parts) = 0 THEN <<>>
  ELSE IF Len(parts) = 1 THEN parts[1]
  ELSE parts[1] \o sep \o Join(Tail(parts), sep)

\* values.map(v => `${prefix}"${v}"`)
Terms(prefix, values) ==
  [i \in 1..Len(values) |-> <<prefix, Quote, values[i], Quote>>]

\* `(${values.map(...).join(' OR ')})`
AndClause(prefix, values) ==
  <<"(">> \o Join(Terms(prefix, values), <<" AND ">>) \o <<")">>
OrClause(prefix, values) ==
  <<"(">> \o Join(Terms(prefix, values), <<" OR ">>) \o <<")">>

\* `${prefix}${values.join('')}`
Letters(prefix, values) ==
  <<prefix>> \o Join([i \in 1..Len(values) |-> <<values[i]>>], <<>>)

\* if (cond) queryParts.push(clause)
Push(cond, clause) == IF cond THEN <<clause>> ELSE <<>>

\* the clauses of the legality of a format
BannedFirst(f) ==
  IF f.format = "" THEN <<>>
  ELSE IF f.banned THEN <<(<<"banned:", f.format>>)>>
  ELSE IF f.legal THEN <<(<<"f:", f.format>>)>>
  ELSE <<>>
FormatClauses(f) ==
  IF f.format = "" THEN <<>>
  ELSE IF f.legal THEN <<(<<"f:", f.format>>)>>
  ELSE IF f.banned THEN <<(<<"banned:", f.format>>)>>
  ELSE <<>>

queryParts(f) ==
  Push(f.name # "", <<"name:", Quote, f.name, Quote>>)
  \o Push(Len(f.colors) > 0, Letters("c:", f.colors))
  \o Push(Len(f.colorIdentity) > 0, Letters("id:", f.colorIdentity))
  \o Push(Len(f.types) > 0, OrClause("t:", f.types))
  \o Push(f.text # "", <<"o:", Quote, f.text, Quote>>)
  \o Push(f.manaValue.hasMin, <<"cmc>=", ToString(f.manaValue.min)>>)
  \o Push(f.manaValue.hasMax, <<"cmc<=", ToString(f.manaValue.max)>>)
  \o Push(f.power.hasMin, <<"pow>=", ToString(f.power.min)>>)
  \o Push(f.power.hasMax, <<"pow<=", ToString(f.power.max)>>)
  \o Push(f.toughness.hasMin, <<"tou>=", ToString(f.toughness.min)>>)
  \o Push(f.toughness.hasMax, <<"tou<=", ToString(f.toughness.max)>>)
  \o Push(Len(f.sets) > 0, OrClause("s:", f.sets))
  \o Push(Len(f.rarity) > 0, OrClause("r:", f.rarity))
  \o FormatClauses(f)

\* const query = queryParts.join(' ')
CompiledUnspaced(f) == Join(queryParts(f), <<>>)
CompiledQuery(f) == Join(queryParts(f), <<" ">>)

\* ------------------------------------------------------ rateLimitedFetch
\* if (timeSinceLastRequest < REQUEST_DELAY) await setTimeout(...)
NeverWaits(since) == FALSE
MustWait(since) == since < REQUEST_DELAY
WaitFor(since) == REQUEST_DELAY - since

\* if (response.status === 429) { wait; return rateLimitedFetch(url, options) }
RetriesAnyFailure(status) == ~Ok(status)
Retries(status) == status = 429

\* lastRequestTime = Date.now(); fetch(url, ...): n dispatches were made before
Dispatch(c, n) ==
  /\ sinceLastRequest' = 0
  /\ attempts' = [attempts EXCEPT ![c] = Min(n + 1, MaxAttempts)]
  /\ pc' = [pc EXCEPT ![c] = "fetching"]
  /\ lastGap' = IF dispatched THEN sinceLastRequest ELSE REQUEST_DELAY
  /\ dispatched' = TRUE
  /\ UNCHANGED timer

\* the entry of rateLimitedFetch up to its first await
Enter(c, n) ==
  IF MustWait(sinceLastRequest)
    THEN /\ timer' = [timer EXCEPT ![c] = WaitFor(sinceLastRequest)]
         /\ pc' = [pc EXCEPT ![c] = "throttled"]
         /\ attempts' = [attempts EXCEPT ![c] = n]
         /\ UNCHANGED <<sinceLastRequest, dispatched, lastGap>>
    ELSE Dispatch(c, n)

\* a ScryfallService method calls rateLimitedFetch
Call(c, o) ==
  /\ pc[c] = "idle"
  /\ op' = [op EXCEPT ![c] = o]
  /\ Enter(c, 0)
  /\ UNCHANGED <<lastReply, fetchResult, outcome>>
  /\ UNCHANGED <<tableVars, srchVars, routeVars, advVars, uiVars>>

\* advancedSearch compiles the query and calls searchCards with it
AdvancedSearch(c, f) ==
  /\ pc[c] = "idle"
  /\ advFilters' = f
  /\ advQuery' = CompiledQuery(f)
  /\ op' = [op EXCEPT ![c] = "searchCards"]
  /\ Enter(c, 0)
  /\ UNCHANGED <<lastReply, fetchResult, outcome>>
  /\ UNCHANGED <<tableVars, srchVars, routeVars, uiVars>>

\* the throttle timer fired: the call goes on to dispatch
Wake(c) ==
  /\ pc[c] = "throttled"
  /\ timer[c] = 0
  /\ Dispatch(c, attempts[c])
  /\ UNCHANGED <<op, lastReply, fetchResult, outcome>>
  /\ UNCHANGED <<tableVars, srchVars, routeVars, advVars, uiVars>>

\* the call completes: the method's own code runs on its result
Complete(c, r, fetched) ==
  /\ pc' = [pc EXCEPT ![c] = "done"]
  /\ lastReply' = [lastReply EXCEPT ![c] = r]
  /\ fetchResult' = [fetchResult EXCEPT ![c] = fetched]
  /\ outcome' = [outcome EXCEPT ![c] = OpResult(op[c], fetched, r)]
  /\ UNCHANGED timer

\* what rateLimitedFetch makes of a reply it does not retry
FetchOutcome(r) ==
  IF r = NetworkFailure THEN Threw(FetchRejected)
  ELSE IF Ok(r.status) THEN Returned(0, FALSE, NoData)
  ELSE Threw(HttpError(r.status))

\* fetch() settles with reply r
Respond(c, r) ==
  /\ pc[c] = "fetching"
  /\ IF r # NetworkFailure /\ ~Ok(r.status) /\ Retries(r.status)
       THEN /\ pc' = [pc EXCEPT ![c] = "backoff"]
            /\ timer' = [timer EXCEPT ![c] = RETRY_DELAY]
            /\ lastReply' = [lastReply EXCEPT ![c] = r]
            /\ UNCHANGED <<fetchResult, outcome>>
       ELSE Complete(c, r, FetchOutcome(r))
  /\ UNCHANGED <<sinceLastRequest, attempts, op, dispatched, lastGap>>
  /\ UNCHANGED <<tableVars, srchVars, routeVars, advVars, uiVars>>

\* the 1000 ms timer fired: return rateLimitedFetch(url, options)
Retry(c) ==
  /\ pc[c] = "backoff"
  /\ timer[c] = 0
  /\ Enter(c, attempts[c])
  /\ UNCHANGED <<op, lastReply, fetchResult, outcome>>
  /\ UNCHANGED <<tableVars, srchVars, routeVars, advVars, uiVars>>

\* the caller has taken the result and may call again
Finish(c) ==
  /\ pc[c] = "done"
  /\ pc' = [pc EXCEPT ![c] = "idle"]
  /\ attempts' = [attempts EXCEPT ![c] = 0]
  /\ lastReply' = [lastReply EXCEPT ![c] = NoReply]
  /\ fetchResult' = [fetchResult EXCEPT ![c] = Pending]
  /\ outcome' = [outcome EXCEPT ![c] = Pending]
  /\ UNCHANGED <<sinceLastRequest, timer, op, dispatched, lastGap>>
  /\ UNCHANGED <<tableVars, srchVars, routeVars, advVars, uiVars>>

\* d ms pass
Tick(d) ==
  /\ \/ sinceLastRequest < REQUEST_DELAY
     \/ \E c \in Callers : timer[c] > 0
  /\ sinceLastRequest' = Min(sinceLastRequest + d, REQUEST_DELAY)
  /\ timer' = [c \in Callers |-> Max(timer[c] - d, 0)]
  /\ UNCHANGED <<pc, attempts, op, lastReply, fetchResult, outcome, dispatched, lastGap>>
  /\ UNCHANGED <<tableVars, srchVars, routeVars, advVars, uiVars>>

\* the filters of advancedSearch; "" and <<>> stand for a field left out
Range2(hasMin, min, hasMax, max) ==
  [hasMin |-> hasMin, min |-> min, hasMax |-> hasMax, max |-> max]
NoRange == Range2(FALSE, 0, FALSE, 0)
Filters(name, colors, colorIdentity, types, text, manaValue, power, toughness, sets, rarity, format, banned, legal) ==
  [name |-> name, colors |-> colors, colorIdentity |-> colorIdentity,
   types |-> types, text |-> text, manaValue |-> manaValue, power |-> power,
   toughness |-> toughness, sets |-> sets, rarity |-> rarity,
   format |-> format, banned |-> banned, legal |-> legal]
NoFilters ==
  Filters("", <<>>, <<>>, <<>>, "", NoRange, NoRange, NoRange, <<>>, <<>>, "", FALSE, FALSE)

\* the calls of handleAddToCollection that can be running together
AddCalls == {1, 2, 3}
NoToast == "none"

\* useState<Set<string>>(new Set()), and no call running
InitCardSearch ==
  /\ addingCards = {}
  /\ uiPc = [h \in AddCalls |-> "idle"]
  /\ uiCard = [h \in AddCalls |-> ""]
  /\ uiToast = [id \in CardIds |-> NoToast]

InitFetch ==
  /\ sinceLastRequest = REQUEST_DELAY
  /\ pc = [c \in Callers |-> "idle"]
  /\ timer = [c \in Callers |-> 0]
  /\ attempts = [c \in Callers |-> 0]
  /\ op = [c \in Callers |-> "downloadCardImage"]
  /\ lastReply = [c \in Callers |-> NoReply]
  /\ fetchResult = [c \in Callers |-> Pending]
  /\ outcome = [c \in Callers |-> Pending]
  /\ dispatched = FALSE
  /\ lastGap = REQUEST_DELAY
  /\ advFilters = NoFilters
  /\ advQuery = <<>>
  /\ InitCardSearch

\* validatedData of POST /api/collection/add
AddData(id, qty, cond, foil, notes) ==
  [scryfall_id |-> id, quantity |-> qty, condition |-> cond, foil |-> foil, notes |-> notes]
NoAddData == AddData("", 0, "", FALSE, NoNotes)
NullRow == Row("", "", "", FALSE, 0)
AddResponse(status, row) == [status |-> status, row |-> row]
NoAddResponse == AddResponse(0, NullRow)

\* the requests the server has in flight at a time
Adders == {1, 2}

\* no POST /api/collection/add in flight
InitAddIdle ==
  /\ addPc = [a \in Adders |-> "idle"]
  /\ addUser = [a \in Adders |-> NoUser]
  /\ addData = [a \in Adders |-> NoAddData]
  /\ addExisting = [a \in Adders |-> NullRow]
  /\ addResponse = [a \in Adders |-> NoAddResponse]
  /\ addsStarted = 0

\* validatedParams of GET /api/collection/search
NoSets == {}
NoCmc == -1
CollParams(sets, cmcMin, sort, asc, page, limit) ==
  [sets |-> sets, cmc_min |-> cmcMin, sort |-> sort, ascending |-> asc,
   page |-> page, limit |-> limit]
NoCollParams == CollParams(NoSets, NoCmc, "", TRUE, 0, 0)
CollResponse(status, data, total, hasMore) ==
  [status |-> status, data |-> data, total |-> total, hasMore |-> hasMore]
NoCollResponse == CollResponse(0, <<>>, 0, FALSE)

\* no GET /api/collection/search in flight
InitCollIdle ==
  /\ collPc = "idle"
  /\ collUser = NoUser
  /\ collParams = NoCollParams
  /\ collCards = <<>>
  /\ collResponse = NoCollResponse

\* no request to the routes, empty tables
InitRoutesIdle ==
  /\ cards_cache = [id \in CardIds |-> NoRow]
  /\ collection_cards = {}
  /\ srchPc = "idle"
  /\ srchUser = NoUser
  /\ srchResult = <<>>
  /\ cardPc = <<>>
  /\ cachedCard = <<>>
  /\ enhanced = <<>>
  /\ enrichFailure = <<>>
  /\ cacheLog = <<>>
  /\ srchResponse = NoResponse
  /\ InitAddIdle
  /\ InitCollIdle

Init == InitFetch /\ InitRoutesIdle

\* Concurrent callers of rateLimitedFetch; one reply per status.
LimiterReplies ==
  { [status |-> s, body |-> NotJson] : s \in Statuses } \cup {NetworkFailure}

Next ==
  \/ \E c \in Callers : Call(c, "downloadCardImage")
  \/ \E c \in Callers : Wake(c)
  \/ \E c \in Callers, r \in LimiterReplies : Respond(c, r)
  \/ \E c \in Callers : Retry(c)
  \/ \E c \in Callers : Finish(c)
  \/ \E d \in TickSteps : Tick(d)

Spec == Init /\ [][Next]_vars

\* ------------------------------------------------ GET /api/cards/search
\* The query parameters, as far as SearchCardsSchema looks at them: the length
\* of q (NoQuery: q is missing) and page (NoPage: page is missing).
NoQuery == -1
NoPage == 0
SearchParams == [qLen : {NoQuery, 0, 4, 101}, page : {NoPage, 1, 11}]

\* SearchCardsSchema.parse(params) does not throw
SearchCardsSchemaAccepts(p) ==
  /\ p.qLen >= 1 /\ p.qLen <= 100
  /\ p.page = NoPage \/ (p.page >= 1 /\ p.page <= 10)

\* the pages the external API may return: distinct cards, at most MaxPage
RECURSIVE PagesOfLen(_)
PagesOfLen(n) ==
  IF n = 0 THEN {<<>>}
  ELSE { Append(pg, c) : pg \in PagesOfLen(n - 1), c \in ScryfallCards }
Distinct(pg) == \A i, j \in 1..Len(pg) : i # j => pg[i].id # pg[j].id
ExternalPages ==
  { pg \in UNION { PagesOfLen(n) : n \in 0..MaxPage } : Distinct(pg) }

\* the replies that end the route's searchCards call (a 429 is retried)
SearchReplies ==
  { [status |-> 200, body |-> ListBody(pg)] : pg \in ExternalPages }
    \cup { [status |-> 404, body |-> ErrorBody("not_found", "no cards matched")],
           [status |-> 200, body |-> ErrorBody("not_found", "no cards matched")],
           [status |-> 500, body |-> NotJson],
           NetworkFailure }

\* row-level security of collection_cards: a session sees its user's rows
VisibleTo(u) == { row \in collection_cards : row.user_id = u }

SingleIgnoringError(matches, failed) ==
  IF Cardinality(matches) = 1 THEN CHOOSE row \in matches : TRUE ELSE NullRow
\* .single(): the row when the query matched exactly one and did not fail,
\* null otherwise (the error is in the `error` member the caller may ignore)
Single(matches, failed) ==
  IF ~failed /\ Cardinality(matches) = 1
    THEN CHOOSE row \in matches : TRUE
    ELSE NullRow

\* supabase.from('collection_cards').select('quantity').eq('scryfall_id', id).single()
CollectionCardOf(u, id, failed) ==
  Single({ row \in VisibleTo(u) : row.scryfall_id = id }, failed)

\* { ...cachedCard, in_collection: !!collectionCard,
\*   collection_quantity: collectionCard?.quantity || 0 }
EnrichedItemAsOwned(id, cached, collectionCard) == Item(id, cached, TRUE, 1)
EnrichedItem(id, cached, collectionCard) ==
  Item(id, cached, collectionCard # NullRow,
       IF collectionCard # NullRow THEN collectionCard.quantity ELSE 0)

\* the record of the catch block, built from the external card
MinimalRecordWrongId(card) == Item("", card.payload, FALSE, 0)
MinimalRecord(card) == Item(card.id, card.payload, FALSE, 0)

\* what is remembered of the cache queries of a card
CacheLog(hadRow, upserts) == [hadRow |-> hadRow, upserts |-> upserts]

NoneOf(n, x) == [i \in 1..n |-> x]

\* the handler up to its call of ScryfallService.searchCards
CardsSearchStart(u, p) ==
  /\ srchPc = "idle"
  /\ srchUser' = u
  /\ IF ~SearchCardsSchemaAccepts(p)
       THEN srchPc' = "responded" /\ srchResponse' = Response(400, <<>>)
     ELSE IF u = NoUser
       THEN srchPc' = "responded" /\ srchResponse' = Response(401, <<>>)
     ELSE srchPc' = "searching" /\ srchResponse' = NoResponse
  /\ UNCHANGED <<srchResult, cardPc, cachedCard, enhanced, enrichFailure, cacheLog>>
  /\ UNCHANGED <<fetchVars, advVars, uiVars, tableVars, routeVars>>

\* searchCards settles on reply r; the enrich callbacks run to their first await
CardsSearchFetched(r) ==
  /\ srchPc = "searching"
  /\ LET found == searchCardsResult(FetchOutcome(r), r)
         n == Len(found.data)
     IN IF found.kind = "threw"
          THEN /\ srchPc' = "responded"
               /\ srchResponse' = Response(500, <<>>)
               /\ UNCHANGED <<srchResult, cardPc, cachedCard, enhanced, enrichFailure, cacheLog>>
          ELSE /\ srchPc' = "enriching"
               /\ srchResult' = found.data
               /\ cardPc' = NoneOf(n, "cache_read")
               /\ cachedCard' = NoneOf(n, NoRow)
               /\ enhanced' = NoneOf(n, NoItem)
               /\ enrichFailure' = NoneOf(n, "none")
               /\ cacheLog' = [i \in 1..n |->
                                 CacheLog(cards_cache[found.data[i].id] # NoRow, 0)]
               /\ UNCHANGED srchResponse
  /\ UNCHANGED <<srchUser, fetchVars, advVars, uiVars, tableVars, routeVars>>

\* getCardFromCache settles for card i
CacheRead(i, failed) ==
  /\ srchPc = "enriching"
  /\ i \in 1..Len(srchResult)
  /\ cardPc[i] = "cache_read"
  /\ LET row == cards_cache[srchResult[i].id]
     IN IF ~failed /\ row # NoRow
          THEN /\ cachedCard' = [cachedCard EXCEPT ![i] = row]
               /\ cardPc' = [cardPc EXCEPT ![i] = "ownership"]
          ELSE /\ cardPc' = [cardPc EXCEPT ![i] = "cache_write"]
               /\ UNCHANGED cachedCard
  /\ UNCHANGED <<srchPc, srchUser, srchResult, enhanced, enrichFailure, cacheLog,
                 srchResponse>>
  /\ UNCHANGED <<fetchVars, advVars, uiVars, tableVars, routeVars>>

\* insertCardToCache settles for card i
CacheWrite(i, failed) ==
  /\ srchPc = "enriching"
  /\ i \in 1..Len(srchResult)
  /\ cardPc[i] = "cache_write"
  /\ cacheLog' = [cacheLog EXCEPT ![i].upserts = @ + 1]
  /\ IF ~failed
       THEN /\ cards_cache' = [cards_cache EXCEPT ![srchResult[i].id] = srchResult[i].payload]
            /\ cachedCard' = [cachedCard EXCEPT ![i] = srchResult[i].payload]
            /\ cardPc' = [cardPc EXCEPT ![i] = "ownership"]
            /\ UNCHANGED <<enhanced, enrichFailure>>
       ELSE /\ enhanced' = [enhanced EXCEPT ![i] = MinimalRecord(srchResult[i])]
            /\ enrichFailure' = [enrichFailure EXCEPT ![i] = "cache_write"]
            /\ cardPc' = [cardPc EXCEPT ![i] = "done"]
            /\ UNCHANGED <<cards_cache, cachedCard>>
  /\ UNCHANGED <<srchPc, srchUser, srchResult, srchResponse>>
  /\ UNCHANGED <<fetchVars, advVars, uiVars, collection_cards, routeVars>>

\* the collection_cards query settles for card i
Ownership(i, failed) ==
  /\ srchPc = "enriching"
  /\ i \in 1..Len(srchResult)
  /\ cardPc[i] = "ownership"
  /\ LET collectionCard == CollectionCardOf(srchUser, srchResult[i].id, failed)
     IN enhanced' = [enhanced EXCEPT ![i] =
                       EnrichedItem(srchResult[i].id, cachedCard[i], collectionCard)]
  /\ enrichFailure' = [enrichFailure EXCEPT ![i] = IF failed THEN "ownership" ELSE "none"]
  /\ cardPc' = [cardPc EXCEPT ![i] = "done"]
  /\ UNCHANGED <<srchPc, srchUser, srchResult, cachedCard, cacheLog, srchResponse>>
  /\ UNCHANGED <<fetchVars, advVars, uiVars, tableVars, routeVars>>

\* Promise.all resolved: NextResponse.json({ ...searchResult, data: enhancedResults })
CardsSearchRespond ==
  /\ srchPc = "enriching"
  /\ \A i \in 1..Len(srchResult) : cardPc[i] = "done"
  /\ srchPc' = "responded"
  /\ srchResponse' = Response(200, enhanced)
  /\ UNCHANGED <<srchUser, srchResult, cardPc, cachedCard, enhanced, enrichFailure,
                 cacheLog>>
  /\ UNCHANGED <<fetchVars, advVars, uiVars, tableVars, routeVars>>

\* the next request may come in
CardsSearchClose ==
  /\ srchPc = "responded"
  /\ srchPc' = "idle"
  /\ srchUser' = NoUser
  /\ srchResult' = <<>>
  /\ cardPc' = <<>>
  /\ cachedCard' = <<>>
  /\ enhanced' = <<>>
  /\ enrichFailure' = <<>>
  /\ cacheLog' = <<>>
  /\ srchResponse' = NoResponse
  /\ UNCHANGED <<fetchVars, advVars, uiVars, tableVars, routeVars>>

\* The tables as POST /api/collection/add and earlier searches leave them:
\* at most one row per (user, card, condition, foil), rows only of cached cards.
RECURSIVE TablesUpTo(_)
TablesUpTo(n) ==
  IF n = 0 THEN {{}}
  ELSE TablesUpTo(n - 1) \cup { t \cup {r} : t \in TablesUpTo(n - 1), r \in Rows }
UniqueKeys(t) == \A r1, r2 \in t : KeyOf(r1) = KeyOf(r2) => r1 = r2

InitSearch ==
  /\ InitFetch
  /\ cards_cache \in [CardIds -> Payloads \cup {NoRow}]
  /\ collection_cards \in TablesUpTo(MaxRows)
  /\ UniqueKeys(collection_cards)
  /\ \A row \in collection_cards : cards_cache[row.scryfall_id] # NoRow
  /\ srchPc = "idle"
  /\ srchUser = NoUser
  /\ srchResult = <<>>
  /\ cardPc = <<>>
  /\ cachedCard = <<>>
  /\ enhanced = <<>>
  /\ enrichFailure = <<>>
  /\ cacheLog = <<>>
  /\ srchResponse = NoResponse
  /\ InitAddIdle
  /\ InitCollIdle

NextSearch ==
  \/ \E u \in Users \cup {NoUser}, p \in SearchParams : CardsSearchStart(u, p)
  \/ \E r \in SearchReplies : CardsSearchFetched(r)
  \/ \E i \in 1..MaxPage, failed \in BOOLEAN : CacheRead(i, failed)
  \/ \E i \in 1..MaxPage, failed \in BOOLEAN : CacheWrite(i, failed)
  \/ \E i \in 1..MaxPage, failed \in BOOLEAN : Ownership(i, failed)
  \/ CardsSearchRespond
  \/ CardsSearchClose

SpecSearch == InitSearch /\ [][NextSearch]_vars

\* ------------------------------------------- POST /api/collection/add

\* AddToCollectionSchema: the grades of a card
CardConditions ==
  {"mint", "near_mint", "excellent", "good", "light_played", "played", "poor"}

\* a field the body does not carry
MissingQuantity == -1
MissingCondition == "undefined"

\* the request body; json is FALSE when request.json() rejects
Body(json, id, qty, cond, foil, notes) ==
  [json |-> json, scryfall_id |-> id, quantity |-> qty, condition |-> cond,
   foil |-> foil, notes |-> notes]
MalformedJson == Body(FALSE, "", 0, "", FALSE, NoNotes)

\* the lengths of the notes the requests carry
NotesLen(notes) ==
  CASE notes = NoNotes -> 0
    [] notes = "" -> 0
    [] notes = "signed" -> 6
    [] OTHER -> 501

\* bodies the schema accepts
ValidBodies ==
  { Body(TRUE, id, qty, cond, foil, notes) :
      id \in CardIds,
      qty \in {MissingQuantity, 2},
      cond \in {MissingCondition, "played"},
      foil \in BOOLEAN,
      notes \in {NoNotes, "", "signed"} }

\* bodies with one field the schema refuses
InvalidBodies ==
  { Body(TRUE, "not-a-uuid", 1, "played", FALSE, NoNotes),
    Body(TRUE, "c1", 0, "played", FALSE, NoNotes),
    Body(TRUE, "c1", 101, "played", FALSE, NoNotes),
    Body(TRUE, "c1", 1, "bogus", FALSE, NoNotes),
    Body(TRUE, "c1", 1, "played", FALSE, "too long") }

AddBodies == ValidBodies \cup InvalidBodies \cup {MalformedJson}

\* the bodies of requests that race for the same entries
RacingBodies ==
  { Body(TRUE, "c1", qty, cond, FALSE, NoNotes) :
      qty \in {1, 2}, cond \in {MissingCondition, "played"} }

\* the ids of the model's cards are uuids
IsUuid(id) == id \in CardIds

AcceptsAnyQuantity(b) ==
  /\ IsUuid(b.scryfall_id)
  /\ b.condition = MissingCondition \/ b.condition \in CardConditions
  /\ b.notes = NoNotes \/ NotesLen(b.notes) <= 500
AddToCollectionSchemaAccepts(b) ==
  /\ IsUuid(b.scryfall_id)
  /\ b.quantity = MissingQuantity \/ (b.quantity >= 1 /\ b.quantity <= 100)
  /\ b.condition = MissingCondition \/ b.condition \in CardConditions
  /\ b.notes = NoNotes \/ NotesLen(b.notes) <= 500

\* AddToCollectionSchema.parse on an accepted body: the defaults filled in
Validated(b) ==
  AddData(b.scryfall_id,
          IF b.quantity = MissingQuantity THEN 1 ELSE b.quantity,
          IF b.condition = MissingCondition THEN "near_mint" ELSE b.condition,
          b.foil, b.notes)

\* the row the insert writes
RowOfFirstUser(u, d) ==
  [user_id |-> "u1", scryfall_id |-> d.scryfall_id, condition |-> d.condition,
   foil |-> d.foil, quantity |-> d.quantity, notes |-> d.notes]
NewRow(u, d) ==
  [user_id |-> u, scryfall_id |-> d.scryfall_id, condition |-> d.condition,
   foil |-> d.foil, quantity |-> d.quantity, notes |-> d.notes]

\* the table refuses a second row of a (user, card, condition, foil)
NeverViolated(table, row) == FALSE
UniqueViolation(table, row) == \E r \in table : KeyOf(r) = KeyOf(row)

\* validatedData.notes || existingCard.notes
Falsy(notes) == notes \in {NoNotes, ""}
NotesReplaced(notes, other) == notes
NotesOr(notes, other) == IF Falsy(notes) THEN other ELSE notes

\* update({quantity, notes}).eq('id', existingCard.id)
QuantityReplaced(existing, d) == d.quantity
NewQuantity(existing, d) == existing.quantity + d.quantity
Updated(table, existing, d) ==
  { IF KeyOf(r) = KeyOf(existing)
      THEN [r EXCEPT !.quantity = NewQuantity(existing, d),
                     !.notes = NotesOr(d.notes, existing.notes)]
      ELSE r : r \in table }

\* the lookup of the existing entry: the rows of the user with the card, the
\* condition and the foil of the request
LookupAnyCondition(u, d) ==
  { r \in VisibleTo(u) : /\ r.user_id = u
                         /\ r.scryfall_id = d.scryfall_id
                         /\ r.foil = d.foil }
Lookup(u, d) ==
  { r \in VisibleTo(u) : /\ r.user_id = u
                         /\ r.scryfall_id = d.scryfall_id
                         /\ r.condition = d.condition
                         /\ r.foil = d.foil }

AddReply(a, status, row) ==
  /\ addPc' = [addPc EXCEPT ![a] = "responded"]
  /\ addResponse' = [addResponse EXCEPT ![a] = AddResponse(status, row)]

\* request.json(), the schema, the session
AddStart(a, u, b) ==
  /\ addPc[a] = "idle"
  /\ addsStarted < MaxAdds
  /\ addsStarted' = addsStarted + 1
  /\ addUser' = [addUser EXCEPT ![a] = u]
  /\ IF ~b.json
       THEN AddReply(a, 500, NullRow) /\ UNCHANGED addData
       ELSE IF ~AddToCollectionSchemaAccepts(b)
         THEN AddReply(a, 400, NullRow) /\ UNCHANGED addData
         ELSE IF u = NoUser
           THEN AddReply(a, 401, NullRow) /\ UNCHANGED addData
           ELSE /\ addPc' = [addPc EXCEPT ![a] = "card_query"]
                /\ addData' = [addData EXCEPT ![a] = Validated(b)]
                /\ UNCHANGED addResponse
  /\ UNCHANGED <<addExisting, fetchVars, advVars, uiVars, tableVars, srchVars, collVars>>

\* cardExists && !cardError
CardAssumed(id, failed) == TRUE
CardExists(id, failed) == ~failed /\ cards_cache[id] # NoRow

\* the card must be in the cache
AddCheckCard(a, failed) ==
  /\ addPc[a] = "card_query"
  /\ IF ~CardExists(addData[a].scryfall_id, failed)
       THEN AddReply(a, 404, NullRow)
       ELSE addPc' = [addPc EXCEPT ![a] = "existing_query"] /\ UNCHANGED addResponse
  /\ UNCHANGED <<addUser, addData, addExisting, addsStarted,
                 fetchVars, advVars, uiVars, tableVars, srchVars, collVars>>

\* the entry the user already has; the error of the query is not read
AddCheckExisting(a, failed) ==
  /\ addPc[a] = "existing_query"
  /\ addExisting' = [addExisting EXCEPT
                       ![a] = Single(Lookup(addUser[a], addData[a]), failed)]
  /\ addPc' = [addPc EXCEPT ![a] = "write"]
  /\ UNCHANGED <<addUser, addData, addResponse, addsStarted,
                 fetchVars, advVars, uiVars, tableVars, srchVars, collVars>>

\* the update of the entry found, or the insert of a new row
AddWrite(a, failed) ==
  /\ addPc[a] = "write"
  /\ IF addExisting[a] # NullRow
       THEN IF failed
         THEN AddReply(a, 500, NullRow) /\ UNCHANGED collection_cards
         ELSE /\ collection_cards' =
                   Updated(collection_cards, addExisting[a], addData[a])
              /\ AddReply(a, 200,
                   [addExisting[a] EXCEPT
                      !.quantity = NewQuantity(addExisting[a], addData[a]),
                      !.notes = NotesOr(addData[a].notes, addExisting[a].notes)])
       ELSE IF failed \/ UniqueViolation(collection_cards, NewRow(addUser[a], addData[a]))
         THEN AddReply(a, 500, NullRow) /\ UNCHANGED collection_cards
         ELSE /\ collection_cards' =
                   collection_cards \cup {NewRow(addUser[a], addData[a])}
              /\ AddReply(a, 200, NewRow(addUser[a], addData[a]))
  /\ UNCHANGED <<addUser, addData, addExisting, addsStarted,
                 cards_cache, fetchVars, advVars, uiVars, srchVars, collVars>>

\* the response is delivered; the slot takes the next request
AddClose(a) ==
  /\ addPc[a] = "responded"
  /\ addPc' = [addPc EXCEPT ![a] = "idle"]
  /\ addUser' = [addUser EXCEPT ![a] = NoUser]
  /\ addData' = [addData EXCEPT ![a] = NoAddData]
  /\ addExisting' = [addExisting EXCEPT ![a] = NullRow]
  /\ addResponse' = [addResponse EXCEPT ![a] = NoAddResponse]
  /\ UNCHANGED <<addsStarted, fetchVars, advVars, uiVars, tableVars, srchVars, collVars>>

\* no request to GET /api/cards/search
InitCardsSearchIdle ==
  /\ srchPc = "idle"
  /\ srchUser = NoUser
  /\ srchResult = <<>>
  /\ cardPc = <<>>
  /\ cachedCard = <<>>
  /\ enhanced = <<>>
  /\ enrichFailure = <<>>
  /\ cacheLog = <<>>
  /\ srchResponse = NoResponse

\* the cache holds the first card only
CacheOfFirstCard == [id \in CardIds |-> IF id = "c1" THEN "new" ELSE NoRow]

\* One request at a time, of one user or of nobody, with every body, on a
\* collection of up to one row.
SerialAdders == {1}

InitAddSerial ==
  /\ InitFetch
  /\ cards_cache = CacheOfFirstCard
  /\ collection_cards \in TablesUpTo(1)
  /\ \A row \in collection_cards : cards_cache[row.scryfall_id] # NoRow
  /\ \A row \in collection_cards : row.foil = FALSE /\ row.quantity = 1
  /\ InitCardsSearchIdle
  /\ InitAddIdle
  /\ InitCollIdle

NextAddSerial ==
  \/ \E a \in SerialAdders, u \in {"u1", NoUser}, b \in AddBodies : AddStart(a, u, b)
  \/ \E a \in SerialAdders, failed \in BOOLEAN : AddCheckCard(a, failed)
  \/ \E a \in SerialAdders, failed \in BOOLEAN : AddCheckExisting(a, failed)
  \/ \E a \in SerialAdders, failed \in BOOLEAN : AddWrite(a, failed)
  \/ \E a \in SerialAdders : AddClose(a)

SpecAddSerial == InitAddSerial /\ [][NextAddSerial]_vars

\* Requests of both users in flight together, over a collection of up to one
\* row of the cached card.
InitAddRace ==
  /\ InitFetch
  /\ cards_cache = CacheOfFirstCard
  /\ collection_cards \in TablesUpTo(1)
  /\ \A row \in collection_cards : cards_cache[row.scryfall_id] # NoRow
  /\ InitCardsSearchIdle
  /\ InitAddIdle
  /\ InitCollIdle

NextAddRace ==
  \/ \E a \in Adders, u \in Users, b \in RacingBodies : AddStart(a, u, b)
  \/ \E a \in Adders, failed \in BOOLEAN : AddCheckCard(a, failed)
  \/ \E a \in Adders, failed \in BOOLEAN : AddCheckExisting(a, failed)
  \/ \E a \in Adders, failed \in BOOLEAN : AddWrite(a, failed)
  \/ \E a \in Adders : AddClose(a)

SpecAddRace == InitAddRace /\ [][NextAddRace]_vars

\* ------------------------------------------ GET /api/collection/search

\* a number the query string does not carry
Absent == -1

\* the set and the mana value of the cached cards
CardSet(id) == IF id = "c1" THEN "lea" ELSE "m21"
CardCmc(id) == IF id = "c1" THEN 1 ELSE 3

\* the parameters parsed from the query string: those the schema accepts
ValidQueries ==
  { CollParams(sets, cmcMin, "name", TRUE, page, limit) :
      sets \in {NoSets, {"lea"}},
      cmcMin \in {Absent, 3},
      page \in {Absent, 2},
      limit \in {Absent, 1} }

\* ... and those with one parameter it refuses
InvalidQueries ==
  { CollParams(NoSets, 21, "name", TRUE, Absent, Absent),
    CollParams(NoSets, Absent, "bogus", TRUE, Absent, Absent),
    CollParams(NoSets, Absent, "name", TRUE, 0, Absent),
    CollParams(NoSets, Absent, "name", TRUE, Absent, 0),
    CollParams(NoSets, Absent, "name", TRUE, Absent, 101) }

CollQueries == ValidQueries \cup InvalidQueries

SortColumns == {"name", "cmc", "rarity", "set", "added_at"}

AcceptsAnyLimit(p) ==
  /\ p.cmc_min = Absent \/ (p.cmc_min >= 0 /\ p.cmc_min <= 20)
  /\ p.sort \in SortColumns
  /\ p.page = Absent \/ p.page >= 1
SearchCollectionSchemaAccepts(p) ==
  /\ p.cmc_min = Absent \/ (p.cmc_min >= 0 /\ p.cmc_min <= 20)
  /\ p.sort \in SortColumns
  /\ p.page = Absent \/ p.page >= 1
  /\ p.limit = Absent \/ (p.limit >= 1 /\ p.limit <= 100)

\* page and limit as the handler fills them in when the query string has none
ValidatedParams(p) ==
  CollParams(p.sets, IF p.cmc_min = Absent THEN NoCmc ELSE p.cmc_min,
             p.sort, p.ascending,
             IF p.page = Absent THEN 1 ELSE p.page,
             IF p.limit = Absent THEN 50 ELSE p.limit)

\* the filters on the columns of the card of a row
Passes(r, p) ==
  /\ p.sets = NoSets \/ CardSet(r.scryfall_id) \in p.sets
  /\ p.cmc_min = NoCmc \/ CardCmc(r.scryfall_id) >= p.cmc_min

\* the rows a query of user u selects; a filter on a column of the embedded
\* card restricts the rows when the database joins the card in (joined), and
\* only the embedded card otherwise
MatchingAnyUser(u, p, joined) ==
  IF joined THEN { r \in collection_cards : Passes(r, p) } ELSE collection_cards
Matching(u, p, joined) ==
  LET mine == { r \in VisibleTo(u) : r.user_id = u }
  IN IF joined THEN { r \in mine : Passes(r, p) } ELSE mine

\* the orders the database may return the rows in
Orderings(S) ==
  { seq \in [1..Cardinality(S) -> S] :
      \A i, j \in 1..Cardinality(S) : i # j => seq[i] # seq[j] }

\* const offset = (page - 1) * limit
Offset(p) == (p.page - 1) * p.limit

\* query.range(from, to), both zero-based and inclusive
RangeToEnd(seq, from, to) == SubSeq(seq, from + 1, Len(seq))
Range(seq, from, to) == SubSeq(seq, from + 1, Min(to + 1, Len(seq)))

\* total: count || 0, count being null when the count query failed
Total(count, failed) == IF failed THEN 0 ELSE count
HasMoreFromOffset(total, p) == total > Offset(p)
HasMore(total, p) == total > p.page * p.limit

CollReply(status, data, total, hasMore) ==
  /\ collPc' = "responded"
  /\ collResponse' = CollResponse(status, data, total, hasMore)

\* the parameters, the schema, the session
CollStart(u, p) ==
  /\ collPc = "idle"
  /\ collUser' = u
  /\ IF ~SearchCollectionSchemaAccepts(p)
       THEN CollReply(400, <<>>, 0, FALSE) /\ UNCHANGED collParams
       ELSE IF u = NoUser
         THEN CollReply(401, <<>>, 0, FALSE) /\ UNCHANGED collParams
         ELSE /\ collPc' = "data_query"
              /\ collParams' = ValidatedParams(p)
              /\ UNCHANGED collResponse
  /\ UNCHANGED <<collCards, fetchVars, advVars, uiVars, tableVars, srchVars, addVars>>

\* the page of rows
CollData(failed, joined) ==
  /\ collPc = "data_query"
  /\ IF failed
       THEN CollReply(500, <<>>, 0, FALSE) /\ UNCHANGED collCards
       ELSE /\ \E ordered \in Orderings(Matching(collUser, collParams, joined)) :
                 collCards' = Range(ordered, Offset(collParams),
                                    Offset(collParams) + collParams.limit - 1)
            /\ collPc' = "count_query"
            /\ UNCHANGED collResponse
  /\ UNCHANGED <<collUser, collParams, fetchVars, advVars, uiVars, tableVars, srchVars, addVars>>

\* the count of the rows; its error is only logged
CollCount(failed, joined) ==
  /\ collPc = "count_query"
  /\ LET count == Cardinality(Matching(collUser, collParams, joined))
         total == Total(count, failed)
     IN CollReply(200, collCards, total, HasMore(total, collParams))
  /\ UNCHANGED <<collUser, collParams, collCards,
                 fetchVars, advVars, uiVars, tableVars, srchVars, addVars>>

\* the response is delivered
CollClose ==
  /\ collPc = "responded"
  /\ collPc' = "idle"
  /\ collUser' = NoUser
  /\ collParams' = NoCollParams
  /\ collCards' = <<>>
  /\ collResponse' = NoCollResponse
  /\ UNCHANGED <<fetchVars, advVars, uiVars, tableVars, srchVars, addVars>>

\* the bodies of the adds that run beside a collection search
PlainBodies ==
  { Body(TRUE, id, 1, MissingCondition, FALSE, NoNotes) : id \in CardIds }

\* Both cards cached, up to one row in the collection; the searches of one
\* user, and the adds of both, one at a time and interleaved.
InitCollection ==
  /\ InitFetch
  /\ cards_cache = [id \in CardIds |-> "new"]
  /\ collection_cards \in TablesUpTo(1)
  /\ \A row \in collection_cards : row.foil = FALSE /\ row.quantity = 1
  /\ InitCardsSearchIdle
  /\ InitAddIdle
  /\ InitCollIdle

NextCollection ==
  \/ \E u \in {"u1", NoUser}, p \in CollQueries : CollStart(u, p)
  \/ \E failed \in BOOLEAN, joined \in BOOLEAN : CollData(failed, joined)
  \/ \E failed \in BOOLEAN, joined \in BOOLEAN : CollCount(failed, joined)
  \/ CollClose
  \/ \E a \in SerialAdders, u \in Users, b \in PlainBodies : AddStart(a, u, b)
  \/ \E a \in SerialAdders, failed \in BOOLEAN : AddCheckCard(a, failed)
  \/ \E a \in SerialAdders, failed \in BOOLEAN : AddCheckExisting(a, failed)
  \/ \E a \in SerialAdders, failed \in BOOLEAN : AddWrite(a, failed)
  \/ \E a \in SerialAdders : AddClose(a)

SpecCollection == InitCollection /\ [][NextCollection]_vars

\* Timers fire, the server answers and time passes.
Fairness ==
  /\ \A c \in Callers : WF_vars(Wake(c)) /\ WF_vars(Retry(c))
  /\ \A c \in Callers : WF_vars(\E r \in LimiterReplies : Respond(c, r))
  /\ WF_vars(\E d \in TickSteps : Tick(d))

FairSpec == Init /\ [][Next]_vars /\ Fairness

\* ------------------------------------------------ the CardSearch component
\* disabled={addingCards.has(card.scryfall_id)}
Disabled(id) == id \in addingCards

\* prev => new Set(prev).add(id), and the updater of the finally block
Added(prev, id) == prev \cup {id}
NoneLeft(prev, id) == {}
Deleted(prev, id) == prev \ {id}

FetchResults == {"ok", "not_ok", "rejected"}

\* the finally block, after the toast of the try or of the catch
Settle(h, toast) ==
  /\ uiToast' = [uiToast EXCEPT ![uiCard[h]] = toast]
  /\ addingCards' = Deleted(addingCards, uiCard[h])
  /\ uiPc' = [uiPc EXCEPT ![h] = "idle"]
  /\ uiCard' = [uiCard EXCEPT ![h] = ""]

\* a click on the button of a card: the handler up to its await of fetch
HandleAddToCollection(h, id) ==
  /\ uiPc[h] = "idle"
  /\ ~Disabled(id)
  /\ addingCards' = Added(addingCards, id)
  /\ uiPc' = [uiPc EXCEPT ![h] = "fetching"]
  /\ uiCard' = [uiCard EXCEPT ![h] = id]
  /\ UNCHANGED <<uiToast, fetchVars, advVars, tableVars, srchVars, routeVars>>

\* fetch settles: an ok response, another response, or a rejection
FetchSettled(h, result) ==
  /\ uiPc[h] = "fetching"
  /\ IF result = "not_ok"
       THEN /\ uiPc' = [uiPc EXCEPT ![h] = "reading_error"]
            /\ UNCHANGED <<addingCards, uiCard, uiToast>>
       ELSE Settle(h, IF result = "ok" THEN "success" ELSE "error")
  /\ UNCHANGED <<fetchVars, advVars, tableVars, srchVars, routeVars>>

\* response.json() of a response that is not ok settles: the handler throws
\* the message of the body, or the parse rejected; the catch toasts either
ErrorRead(h, parsed) ==
  /\ uiPc[h] = "reading_error"
  /\ Settle(h, "error")
  /\ UNCHANGED <<fetchVars, advVars, tableVars, srchVars, routeVars>>

NextCardSearch ==
  \/ \E h \in AddCalls, id \in CardIds : HandleAddToCollection(h, id)
  \/ \E h \in AddCalls, result \in FetchResults : FetchSettled(h, result)
  \/ \E h \in AddCalls, parsed \in BOOLEAN : ErrorRead(h, parsed)

\* Every request the component sent settles, and so does the read of a body.
FairnessCardSearch ==
  /\ \A h \in AddCalls : WF_vars(\E result \in FetchResults : FetchSettled(h, result))
  /\ \A h \in AddCalls : WF_vars(\E parsed \in BOOLEAN : ErrorRead(h, parsed))

SpecCardSearch == Init /\ [][NextCardSearch]_vars /\ FairnessCardSearch

\* One caller of the ScryfallService methods; every status with every body.
GatewayCallers == {1}

NextGateway ==
  \/ \E c \in GatewayCallers, o \in Ops : Call(c, o)
  \/ \E c \in GatewayCallers : Wake(c)
  \/ \E c \in GatewayCallers, r \in Replies : Respond(c, r)
  \/ \E c \in GatewayCallers : Retry(c)
  \/ \E c \in GatewayCallers : Finish(c)
  \/ \E d \in TickSteps : Tick(d)

SpecGateway == Init /\ [][NextGateway]_vars

\* the lists of up to n of the values
RECURSIVE ListsUpTo(_, _)
ListsUpTo(values, n) ==
  IF n = 0 THEN {<<>>}
  ELSE ListsUpTo(values, n - 1)
         \cup { Append(l, v) : l \in ListsUpTo(values, n - 1), v \in values }

\* the filters given to advancedSearch: the lists and the legality, then the
\* letters and the ranges
ListFilters ==
  { Filters("", <<>>, <<>>, types, "", NoRange, NoRange, NoRange,
            sets, <<>>, format, banned, legal) :
      types \in {<<>>, <<"creature", "elf">>},
      sets \in ListsUpTo({"lea", "m21"}, MaxSets),
      format \in {"", "modern"},
      banned \in BOOLEAN, legal \in BOOLEAN }

RangeFilters ==
  { Filters(rest.name, colors, rest.colorIdentity, <<>>, text, manaValue,
            rest.power, rest.toughness, <<>>, rest.rarity, "", FALSE, FALSE) :
      colors \in {<<>>, <<"r", "g">>},
      text \in {"", "flying"},
      manaValue \in {NoRange, Range2(TRUE, 0, FALSE, 0), Range2(FALSE, 0, TRUE, 3),
                     Range2(TRUE, 1, TRUE, 3)},
      rest \in {NoFilters,
                [NoFilters EXCEPT !.name = "bolt", !.colorIdentity = <<"u">>,
                                  !.power = Range2(TRUE, 2, TRUE, 2),
                                  !.toughness = Range2(TRUE, 1, TRUE, 4),
                                  !.rarity = <<"rare", "mythic">>]} }

AdvancedFilters == ListFilters \cup RangeFilters

\* One caller of advancedSearch, with every filter object.
NextAdvanced ==
  \/ \E c \in GatewayCallers, f \in AdvancedFilters : AdvancedSearch(c, f)
  \/ \E c \in GatewayCallers : Wake(c)
  \/ \E c \in GatewayCallers, r \in LimiterReplies : Respond(c, r)
  \/ \E c \in GatewayCallers : Retry(c)
  \/ \E c \in GatewayCallers : Finish(c)
  \/ \E d \in TickSteps : Tick(d)

SpecAdvanced == Init /\ [][NextAdvanced]_vars

\* ------------------------------------------------------------------ claims

\* the reply is a response of the server (fetch did not reject)
IsResponse(r) == r.status # 0

\* C1: any two outbound dispatches, of whatever callers, are at least
\* REQUEST_DELAY ms apart.
C1_DispatchesSpaced == lastGap >= REQUEST_DELAY

\* C2: one call to rateLimitedFetch dispatches at most two requests: a 429
\* answer to the retry is not retried again.
C2_AtMostTwoDispatches == \A c \in Callers : attempts[c] <= 2

\* C3: every call to rateLimitedFetch eventually completes, whatever the
\* server answers.
C3_EveryCallCompletes ==
  \A c \in Callers : (pc[c] # "idle") ~> (pc[c] = "done")

\* C4: a response with a non-2xx status other than 429 makes the call fail at
\* once with an error carrying the status and the status text, and the call
\* dispatches nothing more.
C4_OtherStatusFailsAtOnce ==
  [][\A c \in Callers :
       /\ ( /\ pc[c] = "fetching"
            /\ pc'[c] # "fetching"
            /\ IsResponse(lastReply'[c])
            /\ ~Ok(lastReply'[c].status)
            /\ lastReply'[c].status # 429 )
          => /\ pc'[c] = "done"
             /\ fetchResult'[c] =
                  Threw(ErrorOf("Scryfall API error", lastReply'[c].status,
                                StatusText(lastReply'[c].status)))
             /\ attempts'[c] = attempts[c]
       /\ pc[c] = "done" => attempts'[c] <= attempts[c]
    ]_vars

C4_Witness ==
  \E c \in Callers :
    /\ pc[c] = "done"
    /\ lastReply[c].status = 500
    /\ fetchResult[c].kind = "threw"
    /\ attempts[c] = 2

\* C5: when the API reports not_found to searchCards, searchCards returns the
\* empty result and does not throw, whatever the HTTP status of that reply.
C5_NotFoundIsEmptyResult ==
  \A c \in Callers :
    ( /\ pc[c] = "done"
      /\ op[c] = "searchCards"
      /\ IsResponse(lastReply[c])
      /\ lastReply[c].body.object = "error"
      /\ lastReply[c].body.code = "not_found" )
    => outcome[c] = Returned(0, FALSE, <<>>)

\* C6: when the API returns to searchCards an error object whose code is not
\* not_found, searchCards throws the details message of that object and
\* returns no result set.
C6_OtherErrorThrowsDetails ==
  \A c \in Callers :
    ( /\ pc[c] = "done"
      /\ op[c] = "searchCards"
      /\ IsResponse(lastReply[c])
      /\ lastReply[c].body.object = "error"
      /\ lastReply[c].body.code # "not_found" )
    => /\ outcome[c].kind = "threw"
       /\ lastReply[c].body.details # ""
            => outcome[c].error.text = lastReply[c].body.details

\* C7: getAutocomplete never throws; it returns a sequence, the empty one
\* when the API reported an error or the fetch failed.
C7_AutocompleteNeverThrows ==
  \A c \in Callers :
    op[c] = "getAutocomplete" =>
      /\ outcome[c].kind # "threw"
      /\ pc[c] = "done" =>
           /\ outcome[c].kind = "returned"
           /\ ( \/ fetchResult[c].kind = "threw"
                \/ lastReply[c].body.object = "error" )
              => outcome[c].data = <<>>

\* a second 429-free reply after a 429: the fetch failed with status 500
C7_Witness ==
  \E c \in Callers :
    /\ pc[c] = "done"
    /\ op[c] = "getAutocomplete"
    /\ attempts[c] = 2
    /\ fetchResult[c].kind = "threw"
    /\ outcome[c] = Returned(0, FALSE, <<>>)

\* a cards-search request has been answered with 200
SearchSucceeded == srchPc = "responded" /\ srchResponse.status = 200

\* C8: the data array of a successful cards-search response has as many items
\* as the external page, item i being external card i: no card is dropped,
\* duplicated or reordered, whichever cache and ownership queries failed.
C8_SameCardsSameOrder ==
  SearchSucceeded =>
    /\ Len(srchResponse.data) = Len(srchResult)
    /\ \A i \in 1..Len(srchResult) :
         srchResponse.data[i].scryfall_id = srchResult[i].id

C8_Witness ==
  /\ SearchSucceeded
  /\ Len(srchResult) = 2
  /\ enrichFailure[1] = "cache_write"
  /\ enrichFailure[2] = "ownership"

Holdings(u, id) ==
  { row \in collection_cards : row.user_id = u /\ row.scryfall_id = id }

\* C10: a card whose enrichment did not fail has in_collection true exactly
\* when the requesting user holds an entry of it, and quantity 0 when the user
\* holds none, also when the user holds several entries of the card.
C10_OwnershipFlagIsExact ==
  SearchSucceeded =>
    \A i \in 1..Len(srchResult) :
      enrichFailure[i] = "none" =>
        /\ srchResponse.data[i].in_collection
             <=> Holdings(srchUser, srchResult[i].id) # {}
        /\ Holdings(srchUser, srchResult[i].id) = {}
             => srchResponse.data[i].collection_quantity = 0

\* the request in slot a has just written and answers 200
AddWrote(a) ==
  /\ addPc[a] = "write"
  /\ addPc'[a] = "responded"
  /\ addResponse'[a].status = 200

\* the (user, card, condition, foil) of the request in slot a
RequestKey(a) ==
  <<addUser[a], addData[a].scryfall_id, addData[a].condition, addData[a].foil>>
EntriesOf(table, key) == { r \in table : KeyOf(r) = key }

\* C11: a successful add whose (user, card, condition, foil) has an entry
\* leaves that entry with the quantity of the existing entry, as the request
\* found it, plus the requested quantity, and the table with as many rows.
C11_MergeAddsQuantity ==
  [][\A a \in Adders :
       (AddWrote(a) /\ EntriesOf(collection_cards, RequestKey(a)) # {}) =>
         /\ EntriesOf(collection_cards', RequestKey(a)) # {}
         /\ \A r \in EntriesOf(collection_cards', RequestKey(a)) :
              r.quantity = addExisting[a].quantity + addData[a].quantity
         /\ Cardinality(collection_cards') = Cardinality(collection_cards)]_vars

C11_Witness ==
  \E a \in Adders :
    /\ addResponse[a].status = 200
    /\ addExisting[a] # NullRow
    /\ addResponse[a].row \in collection_cards
    /\ addResponse[a].row.quantity = addExisting[a].quantity + addData[a].quantity

\* the user of the request in slot a has an entry of the requested card
OwnsCard(a) ==
  \E r \in collection_cards :
    r.user_id = addUser[a] /\ r.scryfall_id = addData[a].scryfall_id

\* C12: a successful add of a card the user owns, with a (condition, foil) the
\* user has no entry for, creates exactly one row, with the requested
\* quantity, and leaves every existing row as it was.
C12_NewCombinationIsNewRow ==
  [][\A a \in Adders :
       (/\ AddWrote(a)
        /\ OwnsCard(a)
        /\ EntriesOf(collection_cards, RequestKey(a)) = {}) =>
         /\ collection_cards \subseteq collection_cards'
         /\ Cardinality(collection_cards') = Cardinality(collection_cards) + 1
         /\ \A r \in collection_cards' \ collection_cards :
              KeyOf(r) = RequestKey(a) /\ r.quantity = addData[a].quantity]_vars

C12_Witness ==
  \E a \in Adders :
    /\ addResponse[a].status = 200
    /\ addExisting[a] = NullRow
    /\ addResponse[a].row \in collection_cards
    /\ \E r \in collection_cards :
         /\ r.user_id = addUser[a]
         /\ r.scryfall_id = addData[a].scryfall_id
         /\ KeyOf(r) # RequestKey(a)

\* C13: the collection table never holds two rows of one (user, card,
\* condition, foil), however the add requests interleave.
C13_OneRowPerKey == UniqueKeys(collection_cards)

\* two requests for one key both found no entry; the second insert was refused
C13_Witness ==
  \E a, b \in Adders :
    /\ a # b
    /\ RequestKey(a) = RequestKey(b)
    /\ addExisting[a] = NullRow /\ addExisting[b] = NullRow
    /\ addResponse[a].status = 200
    /\ addResponse[b].status = 500

\* the rows of the users other than u
RowsOfOthers(table, u) == { r \in table : r.user_id # u }

\* C19: no step of a user's add request creates, changes or removes a row of
\* another user.
C19_OtherUsersRowsUntouched ==
  [][\A a \in Adders :
       (addPc[a] # "idle" /\ addPc'[a] # addPc[a]) =>
         RowsOfOthers(collection_cards', addUser[a]) =
           RowsOfOthers(collection_cards, addUser[a])]_vars

C19_Witness ==
  \E a \in Adders :
    /\ addResponse[a].status = 200
    /\ addResponse[a].row \in collection_cards
    /\ RowsOfOthers(collection_cards, addUser[a]) # {}

\* C14: a request without a session is answered 401, whatever its body
\* (bodies that fail validation included).
C14_UnauthenticatedIs401 ==
  \A a \in Adders :
    (addPc[a] = "responded" /\ addUser[a] = NoUser) =>
      addResponse[a].status = 401

\* the body is JSON and breaks a rule of AddToCollectionSchema
FailsAddSchema(b) ==
  /\ b.json
  /\ \/ b.quantity # MissingQuantity /\ (b.quantity < 1 \/ b.quantity > 100)
     \/ b.condition # MissingCondition /\ b.condition \notin CardConditions
     \/ b.scryfall_id \notin CardIds
     \/ b.notes = "too long"

\* C15: a body that fails AddToCollectionSchema is answered 400 and leaves
\* the collection table and the card cache as they were.
C15_InvalidBodyIs400 ==
  [][\A a \in Adders, u \in Users \cup {NoUser}, b \in AddBodies :
       (FailsAddSchema(b) /\ AddStart(a, u, b)) =>
         /\ addResponse'[a].status = 400
         /\ addPc'[a] = "responded"
         /\ UNCHANGED tableVars]_vars

C15_Witness ==
  \E a \in Adders : addResponse[a].status = 400 /\ collection_cards # {}

\* the collection search has answered 200
CollSucceeded == collPc = "responded" /\ collResponse.status = 200

\* the page is the rows of some order of the selected rows, from position
\* (page - 1) * limit on, limit of them at most
IsPageOf(data, ordered, page, limit) ==
  /\ Len(data) = Max(0, Min(limit, Len(ordered) - (page - 1) * limit))
  /\ \A i \in 1..Len(data) : data[i] = ordered[(page - 1) * limit + i]

\* C16: with page >= 1 and 1 <= limit <= 100 the data query skips the first
\* (page - 1) * limit rows, the response carries at most limit rows, and
\* hasMore is exactly total > page * limit.
C16_PageWindow ==
  [][/\ (collPc = "data_query" /\ collPc' = "count_query") =>
          \E joined \in BOOLEAN :
            \E ordered \in Orderings(Matching(collUser, collParams, joined)) :
              IsPageOf(collCards', ordered, collParams.page, collParams.limit)
     /\ (collPc = "count_query" /\ collPc' = "responded"
           /\ collResponse'.status = 200) =>
          /\ collParams.page >= 1
          /\ collParams.limit >= 1 /\ collParams.limit <= 100
          /\ Len(collResponse'.data) <= collParams.limit
          /\ collResponse'.hasMore =
               (collResponse'.total > collParams.page * collParams.limit)]_vars

C16_Witness ==
  /\ CollSucceeded
  /\ collParams.page = 2 /\ collParams.limit = 1
  /\ Len(collResponse.data) = 1
  /\ collResponse.total = 2

\* C17: the total of a response covers the page it carries:
\* total >= (page - 1) * limit + data.length.
C17_TotalCoversPage ==
  CollSucceeded =>
    collResponse.total >=
      (collParams.page - 1) * collParams.limit + Len(collResponse.data)

\* C18: every row a collection search returns is a row of the requesting
\* user, and it counts no more rows than that user has.
C18_OnlyOwnRows ==
  [][(collPc = "count_query" /\ collPc' = "responded") =>
       /\ \A i \in 1..Len(collResponse'.data) :
            collResponse'.data[i].user_id = collUser
       /\ collResponse'.total <=
            Cardinality({ r \in collection_cards : r.user_id = collUser })]_vars

C18_Witness ==
  /\ CollSucceeded
  /\ Len(collResponse.data) >= 1
  /\ collResponse.total >= 1
  /\ \E r \in collection_cards : r.user_id # collUser

\* the filter object carries a sets list and nothing else
OnlySets(f) == f = [NoFilters EXCEPT !.sets = f.sets] /\ Len(f.sets) >= 1

\* C20: filters with only a sets list of N >= 1 values compile to one
\* parenthesized clause of N set-code terms joined by OR:
\* ( s:"v1" OR s:"v2" ... ), and nothing else.
C20_SetsCompileToOneOrClause ==
  OnlySets(advFilters) =>
    LET N == Len(advFilters.sets)
    IN /\ Len(advQuery) = 5 * N + 1
       /\ advQuery[1] = "("
       /\ advQuery[5 * N + 1] = ")"
       /\ \A i \in 1..N :
            /\ advQuery[5 * i - 3] = "s:"
            /\ advQuery[5 * i - 2] = Quote
            /\ advQuery[5 * i - 1] = advFilters.sets[i]
            /\ advQuery[5 * i] = Quote
       /\ \A i \in 1..(N - 1) : advQuery[5 * i + 1] = " OR "

C20_Witness ==
  /\ OnlySets(advFilters)
  /\ Len(advFilters.sets) = 2
  /\ advQuery = <<"(", "s:", Quote, "lea", Quote, " OR ", "s:", Quote, "m21", Quote, ")">>

\* the query has the piece prefix followed by the piece v
HasPieces(q, prefix, v) ==
  \E i \in 1..(Len(q) - 1) : q[i] = prefix /\ q[i + 1] = v

\* C21: with a format and both legal and banned set, the query has the clause
\* f:<format> and no clause banned:<format>; a banned clause is in the query
\* only when legal is not set.
C21_LegalBeforeBanned ==
  /\ (advFilters.format # "" /\ advFilters.legal /\ advFilters.banned) =>
       /\ HasPieces(advQuery, "f:", advFilters.format)
       /\ ~HasPieces(advQuery, "banned:", advFilters.format)
  /\ (\E i \in 1..Len(advQuery) : advQuery[i] = "banned:") =>
       ~advFilters.legal /\ advFilters.banned /\ advFilters.format # ""

C21_Witness ==
  /\ advFilters.format = "modern" /\ advFilters.legal /\ advFilters.banned
  /\ HasPieces(advQuery, "f:", "modern")

\* the pieces of the first k clauses and of the spaces after them
RECURSIVE LengthThrough(_, _)
LengthThrough(parts, k) ==
  IF k = 0 THEN 0 ELSE LengthThrough(parts, k - 1) + Len(parts[k]) + 1

\* q is the clauses in their order with one " " between two of them
SingleSpaced(q, parts) ==
  /\ Len(q) = IF Len(parts) = 0 THEN 0 ELSE LengthThrough(parts, Len(parts)) - 1
  /\ \A k \in 1..Len(parts) :
       /\ \A i \in 1..Len(parts[k]) :
            q[LengthThrough(parts, k - 1) + i] = parts[k][i]
       /\ k < Len(parts) => q[LengthThrough(parts, k)] = " "

\* every field of the filter object is empty or left out
NothingToCompile(f) ==
  /\ f.name = "" /\ f.text = "" /\ f.format = ""
  /\ f.colors = <<>> /\ f.colorIdentity = <<>> /\ f.types = <<>>
  /\ f.sets = <<>> /\ f.rarity = <<>>
  /\ f.manaValue = NoRange /\ f.power = NoRange /\ f.toughness = NoRange

\* C22: the compiled query is the clauses with exactly one space between two
\* consecutive ones; filters with no non-empty field compile to the empty
\* query, and searchCards is called with it.
C22_ClausesSingleSpaced ==
  [][\A c \in GatewayCallers, f \in AdvancedFilters :
       AdvancedSearch(c, f) =>
         /\ SingleSpaced(advQuery', queryParts(f))
         /\ NothingToCompile(f) => advQuery' = <<>>
         /\ op'[c] = "searchCards" /\ pc'[c] # "idle"]_vars

C22_Witness ==
  /\ advFilters.types = <<"creature", "elf">>
  /\ advFilters.sets = <<"lea">>
  /\ advFilters.format = "modern" /\ advFilters.legal
  /\ \E i, j \in 1..Len(advQuery) : i < j /\ advQuery[i] = " " /\ advQuery[j] = " "
  /\ \E c \in GatewayCallers : op[c] = "searchCards" /\ pc[c] # "idle"

\* C23: a search that fetched a card again has upserted its cache row from
\* the external payload: after a search none of whose queries failed, the row
\* of every card of the page is the payload the search fetched.
C23_RefetchUpserts ==
  SearchSucceeded =>
    \A i \in 1..Len(srchResult) :
      enrichFailure[i] = "none" =>
        cards_cache[srchResult[i].id] = srchResult[i].payload

\* card i of the page had no cache row, and the user holds no row of it
MissedAndNotOwned(i) ==
  /\ ~cacheLog[i].hadRow
  /\ Holdings(srchUser, srchResult[i].id) = {}

\* C24: for a card without a cache row that the user does not own, the enrich
\* step makes exactly one upsert, returns the card with in_collection = false
\* and collection_quantity = 0, and leaves a cache row of the card.
C24_MissIsCachedOnce ==
  SearchSucceeded =>
    \A i \in 1..Len(srchResult) :
      MissedAndNotOwned(i) =>
        /\ cacheLog[i].upserts = 1
        /\ ~srchResponse.data[i].in_collection
        /\ srchResponse.data[i].collection_quantity = 0
        /\ cards_cache[srchResult[i].id] # NoRow

\* C24 as the code has it: the row exists afterwards when the upsert
\* succeeded, and is the external payload.
C24_MissIsCachedOnceIfWritten ==
  SearchSucceeded =>
    \A i \in 1..Len(srchResult) :
      MissedAndNotOwned(i) =>
        /\ cacheLog[i].upserts = 1
        /\ srchResponse.data[i].scryfall_id = srchResult[i].id
        /\ ~srchResponse.data[i].in_collection
        /\ srchResponse.data[i].collection_quantity = 0
        /\ enrichFailure[i] # "cache_write" =>
             cards_cache[srchResult[i].id] = srchResult[i].payload
        /\ enrichFailure[i] = "cache_write" =>
             cards_cache[srchResult[i].id] = NoRow

C24_Witness ==
  /\ SearchSucceeded
  /\ \E i \in 1..Len(srchResult) :
       /\ MissedAndNotOwned(i)
       /\ enrichFailure[i] = "none"
       /\ cacheLog[i].upserts = 1
       /\ cards_cache[srchResult[i].id] = srchResult[i].payload
       /\ ~srchResponse.data[i].in_collection

\* C25: a failure met by an authenticated, valid request is answered 500,
\* never 200: here the failed data query and the failed count query of the
\* collection search.
C25_FailureIs500 ==
  [][\A joined \in BOOLEAN :
       (CollData(TRUE, joined) \/ CollCount(TRUE, joined)) =>
         collPc' = "responded" /\ collResponse'.status = 500]_vars

\* caller c dispatches a request in this step
Dispatches(c) == pc[c] # "fetching" /\ pc'[c] = "fetching"

\* C26: when one caller makes its calls one after the other, a request is
\* dispatched no sooner than REQUEST_DELAY ms after the dispatch before it,
\* and lastRequestTime is the time of the latest dispatch: the time elapsed
\* since lastRequestTime restarts at a dispatch and at nothing else.
C26_BackToBackSpaced ==
  [][/\ \A c \in GatewayCallers :
          Dispatches(c) =>
            /\ dispatched => sinceLastRequest >= REQUEST_DELAY
            /\ sinceLastRequest' = 0
     /\ sinceLastRequest' < sinceLastRequest =>
          \E c \in GatewayCallers : Dispatches(c)]_vars

\* a call made right after an earlier dispatch has waited out the delay and
\* is about to dispatch
C26_Witness ==
  \E c \in GatewayCallers :
    /\ pc[c] = "throttled"
    /\ attempts[c] = 0
    /\ dispatched
    /\ timer[c] = 0
    /\ sinceLastRequest = REQUEST_DELAY

\* C27: an authenticated, valid add of a card without a cache row is answered
\* 404 and leaves the collection table as it was; every row the table gains
\* is a row of a cached card.
C27_UncachedCardIs404 ==
  [][/\ \A a \in Adders :
          (/\ addPc[a] = "card_query"
           /\ addPc'[a] # "card_query"
           /\ cards_cache[addData[a].scryfall_id] = NoRow) =>
            /\ addPc'[a] = "responded"
            /\ addResponse'[a].status = 404
            /\ collection_cards' = collection_cards
     /\ \A r \in collection_cards' \ collection_cards :
          cards_cache[r.scryfall_id] # NoRow]_vars

C27_Witness ==
  \E a \in Adders :
    /\ addResponse[a].status = 404
    /\ addUser[a] \in Users
    /\ cards_cache[addData[a].scryfall_id] = NoRow
    /\ collection_cards # {}

\* the quantity the table holds for a key, 0 when it has no row of it
StoredQuantity(table, key) ==
  IF EntriesOf(table, key) = {} THEN 0
  ELSE (CHOOSE r \in EntriesOf(table, key) : TRUE).quantity

\* C28: every add that answers success raises the stored quantity of its
\* (user, card, condition, foil) by the quantity it requested, however the
\* requests interleave; the stored quantity is then the initial one plus the
\* sum of the successful requests.
C28_EverySuccessCounts ==
  [][\A a \in Adders :
       AddWrote(a) =>
         StoredQuantity(collection_cards', RequestKey(a)) =
           StoredQuantity(collection_cards, RequestKey(a)) + addData[a].quantity]_vars

\* C29: an add that merges into an existing entry changes one row, the one of
\* its (user, card, condition, foil), and of that row only quantity and notes;
\* every other row is as it was, and the notes stay when the request carries
\* none or an empty string.
C29_MergeTouchesQuantityAndNotes ==
  [][\A a \in Adders :
       (AddWrote(a) /\ addExisting[a] # NullRow) =>
         \E old \in collection_cards, new \in collection_cards' :
           /\ KeyOf(old) = RequestKey(a)
           /\ [new EXCEPT !.quantity = old.quantity, !.notes = old.notes] = old
           /\ collection_cards' \ {new} = collection_cards \ {old}
           /\ Falsy(addData[a].notes) => new.notes = old.notes]_vars

C29_Witness ==
  \E a \in Adders :
    /\ addResponse[a].status = 200
    /\ addExisting[a] # NullRow
    /\ Falsy(addData[a].notes)
    /\ addExisting[a].notes = "signed"
    /\ addResponse[a].row \in collection_cards
    /\ addResponse[a].row.notes = "signed"
    /\ Cardinality(collection_cards) > 1

\* the calls of handleAddToCollection in flight for a card
InFlight(id) == { h \in AddCalls : uiPc[h] # "idle" /\ uiCard[h] = id }

\* C30: a card's id is in addingCards exactly while a call of
\* handleAddToCollection for that card is in flight, whatever happens to the
\* calls for other cards; and under requests that settle, a card that is in
\* addingCards eventually leaves it, so its button is enabled again.
C30_AddingWhileInFlight ==
  /\ [](\A id \in CardIds : Disabled(id) <=> InFlight(id) # {})
  /\ \A id \in CardIds : Disabled(id) ~> ~Disabled(id)

\* a call has settled (with a non-ok response) while another card is still
\* being added
C30_Witness ==
  \E id, other \in CardIds :
    /\ uiToast[id] = "error"
    /\ ~Disabled(id)
    /\ other # id
    /\ Disabled(other)
    /\ \E h \in AddCalls : uiPc[h] = "reading_error" /\ uiCard[h] = other

====
